---- MODULE Spec2Model ----
(***************************************************************************)
(* A model of the attribute macro `tylift` of src/src/lib.rs: one          *)
(* expansion, from the assertion on the attribute arguments to the         *)
(* returned token stream.  Identifiers are strings, token streams are      *)
(* sequences of items, and every `quote!` is the sequence of items it      *)
(* writes.  The two builds of the crate (feature `span_errors` on or off)  *)
(* are the two values of the variable span_errors.                         *)
(***************************************************************************)
EXTENDS Naturals, Sequences, FiniteSets, TLC

VARIABLES
    span_errors,   \* cfg(feature = "span_errors") of the build
    attr,          \* the attribute's argument tokens
    item,          \* the parsed ItemEnum; item.variants holds the variants iterated so far
    variants,      \* the Vec `variants` of line 123
    diagnostics,   \* messages passed to Diagnostic::emit, in order
    panicked,      \* message of the panic that ended the expansion, "" if none
    output,        \* the token stream the macro returned, as a sequence of items
    pc             \* position in the body of tylift

vars == <<span_errors, attr, item, variants, diagnostics, panicked, output, pc>>

----------------------------------------------------------------------------
(* Bounds of the input space. *)

MaxVariants == 2
MaxFields == 2

(* Identifiers a user can write.  "__Pseudo" and "__T0" are        *)
(* ordinary Rust identifiers; "K" and "N" are the kind names.      *)
KindIdents == {"K", "N"}
VariantIdents == {"K", "A", "__Pseudo"}
FieldKinds == {"K", "__T0"}

(* Argument token sequences of the attribute: none, `mod`, `mod M`, `M`. *)
AttrShapes == {<<>>, <<"mod">>, <<"mod", "M">>, <<"M">>}

SeqUpTo(S, n) == UNION {[1..k -> S] : k \in 0..n}

FieldShapes ==
    {[tag |-> "Unit", unnamed |-> <<>>], [tag |-> "Named", unnamed |-> <<>>]}
    \cup {[tag |-> "Unnamed", unnamed |-> tys] : tys \in SeqUpTo(FieldKinds, MaxFields)}

VariantDecls == [attrs : {<<>>}, ident : VariantIdents, fields : FieldShapes]

----------------------------------------------------------------------------
(* Build configuration. *)

(* The cfg predicate of line 144 names the feature "span_erros"; the crate *)
(* documents one optional feature, `span_errors` (lines 6-10), so the      *)
(* predicate is false in both builds.                                      *)
span_erros == FALSE

----------------------------------------------------------------------------
(* Diagnostics messages. *)

MsgGenerics == "type parameters cannot be lifted to the kind-level"
MsgNameMatches == "name of variant matches name of enum"
MsgNamedFields == "variant must not have named fields"
MsgAssertAttr == "assertion failed: attr.is_empty()"
MsgParse == "syn::Error"

----------------------------------------------------------------------------
(* Items of a token stream. *)

Use(vis, path, names) == [item |-> "use", vis |-> vis, path |-> path, names |-> names]
UseSuper == [item |-> "use", vis |-> "", path |-> "super", names |-> <<"*">>]
Trait(attrs, name, supertrait, clause) ==
    [item |-> "trait", vis |-> "pub", attrs |-> attrs, name |-> name,
     supertrait |-> supertrait, clause |-> clause]
Struct(attrs, name, params) ==
    [item |-> "struct", vis |-> "pub", attrs |-> attrs, name |-> name, params |-> params,
     payload |-> [i \in 1..Len(params) |-> params[i].name]]
Enum(attrs, name) == [item |-> "enum", vis |-> "pub", attrs |-> attrs, name |-> name]
Impl(params, trait, for, args) ==
    [item |-> "impl", params |-> params, trait |-> trait, for |-> for, args |-> args]
CompileError(msg) == [item |-> "compile_error", msg |-> msg]

(* fn module, lines 30-32 *)
module(name, content) == [item |-> "mod", vis |-> "", name |-> name, content |-> content]

(* macro identifier!, lines 21-28: "__" followed by the formatted text *)
identifier(text) == "__" \o text

----------------------------------------------------------------------------
(* Validation, lines 99-166. *)

(* An assertion that lets the `mod` argument shapes through. *)
AttrIsEmpty_AcceptsMod(a) == a = <<>> \/ a[1] = "mod"

(* line 101 *)
AttrIsEmpty(a) == a = <<>>

(* A check that overlooks the generic parameters. *)
HasGenerics_Never(it) == FALSE

(* line 108 *)
HasGenerics(it) == it.generics > 0

(* A comparison that never finds the variant named like the enum. *)
NameMatchesEnum_Never(v, it) == FALSE

(* line 126 *)
NameMatchesEnum(v, it) == v.ident = it.ident

(* A parameter name that leaves out the slot index. *)
FieldName_NoIndex(index) == identifier("T")

(* line 159 *)
FieldName(index) == identifier("T" \o ToString(index))

(* lines 157-162: index is zero-based, the sequence is one-based *)
FieldNames(fields) ==
    IF fields.tag = "Unnamed"
    THEN [i \in 1..Len(fields.unnamed) |-> FieldName(i - 1)]
    ELSE <<>>

FieldTypes(fields) ==
    IF fields.tag = "Unnamed"
    THEN [i \in 1..Len(fields.unnamed) |-> fields.unnamed[i]]
    ELSE <<>>

(* line 165 *)
Lifted(v) ==
    [attrs |-> v.attrs, ident |-> v.ident,
     field_names |-> FieldNames(v.fields), field_types |-> FieldTypes(v.fields)]

----------------------------------------------------------------------------
(* Emission, lines 168-211. *)

kind_module(kind) == identifier("tylift_kind_" \o kind)
pseudo == identifier("Pseudo")
sealed_module == identifier("sealed")
sealed_trait == identifier("Sealed")

(* line 177 *)
ReexportItems(kind, vs) == <<kind>> \o [i \in 1..Len(vs) |-> vs[i].ident]

(* line 190 *)
Parameters(l) ==
    [i \in 1..Len(l.field_names) |-> [name |-> l.field_names[i], bound |-> l.field_types[i]]]

(* line 191 *)
Arguments(l) == l.field_names

(* lines 192-196 *)
KindItems(kind, l) ==
    << Struct(l.attrs, l.ident, Parameters(l)),
       Impl(Parameters(l), kind, l.ident, Arguments(l)) >>

(* lines 197-199 *)
SealedItems(l) == << Impl(Parameters(l), sealed_trait, l.ident, Arguments(l)) >>

RECURSIVE KindLoop(_, _)
KindLoop(kind, vs) ==
    IF vs = <<>> THEN <<>> ELSE KindItems(kind, Head(vs)) \o KindLoop(kind, Tail(vs))

RECURSIVE SealedLoop(_)
SealedLoop(vs) ==
    IF vs = <<>> THEN <<>> ELSE SealedItems(Head(vs)) \o SealedLoop(Tail(vs))

(* lines 184-187, 197-199, 206-208 *)
sealed_module_stream(vs) ==
    << UseSuper, Trait(<<>>, sealed_trait, <<>>, "") >>
    \o SealedLoop(vs)
    \o << Impl(<<>>, sealed_trait, pseudo, <<>>) >>

(* lines 179-183, 192-196, 201-205, 209 *)
kind_module_stream(it, vs) ==
    << UseSuper,
       Trait(it.attrs, it.ident, <<sealed_module, sealed_trait>>, it.clause) >>
    \o KindLoop(it.ident, vs)
    \o << Enum(<<"doc(hidden)">>, pseudo), Impl(<<>>, it.ident, pseudo, <<>>) >>
    \o << module(sealed_module, sealed_module_stream(vs)) >>

(* lines 178, 210 *)
output_stream(it, vs) ==
    << Use(it.vis, kind_module(it.ident), ReexportItems(it.ident, vs)),
       module(kind_module(it.ident), kind_module_stream(it, vs)) >>

----------------------------------------------------------------------------
(* The expansion as a state machine. *)

NoItem == [ident |-> "", vis |-> "", attrs |-> <<>>, clause |-> "", generics |-> 0,
           variants |-> <<>>]

Init ==
    /\ span_errors \in BOOLEAN
    /\ attr \in AttrShapes
    /\ item = NoItem
    /\ variants = <<>>
    /\ diagnostics = <<>>
    /\ panicked = ""
    /\ output = <<>>
    /\ pc = "assert"

(* A failed check that records its message and lets the expansion go on. *)
Panic_Continues(msg) ==
    /\ panicked' = msg
    /\ pc' = "loop"

(* panic!, lines 101, 120, 138, 155: the expansion ends with the message *)
Panic(msg) ==
    /\ panicked' = msg
    /\ pc' = "done"

(* line 101 *)
AssertAttr ==
    /\ pc = "assert"
    /\ IF AttrIsEmpty(attr)
       THEN pc' = "parse" /\ UNCHANGED panicked
       ELSE Panic(MsgAssertAttr)
    /\ UNCHANGED <<span_errors, attr, item, variants, diagnostics, output>>

(* line 106, the item is an enum: the header of the ItemEnum *)
ParseEnum ==
    /\ pc = "parse"
    /\ \E ident \in KindIdents, generics \in 0..1 :
         item' = [ident |-> ident, vis |-> "pub", attrs |-> <<"doc">>, clause |-> "",
                  generics |-> generics, variants |-> <<>>]
    /\ pc' = "generics"
    /\ UNCHANGED <<span_errors, attr, variants, diagnostics, panicked, output>>

(* line 106, the item is no enum: parse_macro_input! returns the error's tokens *)
ParseError ==
    /\ pc = "parse"
    /\ output' = << CompileError(MsgParse) >>
    /\ pc' = "done"
    /\ UNCHANGED <<span_errors, attr, item, variants, diagnostics, panicked>>

(* lines 108-121 *)
CheckGenerics ==
    /\ pc = "generics"
    /\ IF HasGenerics(item)
       THEN IF span_errors
            THEN /\ diagnostics' = Append(diagnostics, MsgGenerics)
                 /\ pc' = "loop"
                 /\ UNCHANGED panicked
            ELSE /\ Panic(MsgGenerics)
                 /\ UNCHANGED diagnostics
       ELSE /\ pc' = "loop"
            /\ UNCHANGED <<diagnostics, panicked>>
    /\ UNCHANGED <<span_errors, attr, item, variants, output>>

(* lines 125-166, one iteration of the loop on the next variant v *)
Variant(v) ==
    /\ pc = "loop"
    /\ Len(item.variants) < MaxVariants
    /\ item' = [item EXCEPT !.variants = Append(@, v)]
    /\ IF NameMatchesEnum(v, item)
       THEN IF span_errors
            THEN /\ diagnostics' = Append(diagnostics, MsgNameMatches)
                 /\ UNCHANGED <<variants, panicked, pc>>
            ELSE /\ Panic(MsgNameMatches)
                 /\ UNCHANGED <<variants, diagnostics>>
       ELSE IF v.fields.tag = "Named" /\ span_erros
            THEN /\ diagnostics' = Append(diagnostics, MsgNamedFields)
                 /\ UNCHANGED <<variants, panicked, pc>>
            ELSE IF v.fields.tag = "Named" /\ ~span_errors
                 THEN /\ Panic(MsgNamedFields)
                      /\ UNCHANGED <<variants, diagnostics>>
                 ELSE /\ variants' = Append(variants, Lifted(v))
                      /\ UNCHANGED <<diagnostics, panicked, pc>>
    /\ UNCHANGED <<span_errors, attr, output>>

NextVariant == \E v \in VariantDecls : Variant(v)

(* lines 168-211, after the last variant *)
Emit ==
    /\ pc = "loop"
    /\ output' = output_stream(item, variants)
    /\ pc' = "done"
    /\ UNCHANGED <<span_errors, attr, item, variants, diagnostics, panicked>>

Next ==
    \/ AssertAttr
    \/ ParseEnum
    \/ ParseError
    \/ CheckGenerics
    \/ NextVariant
    \/ Emit

Spec == Init /\ [][Next]_vars

----------------------------------------------------------------------------
(* Reading the state and the returned token stream. *)

Done == pc = "done"

(* The macro returned the replacement declarations (lines 178-211). *)
Emitted == pc = "done" /\ Len(output) = 2

(* Every diagnostic raised: emitted ones, the panic, a compile_error! item. *)
Raised ==
    diagnostics
    \o (IF panicked # "" THEN <<panicked>> ELSE <<>>)
    \o SelectSeq(output, LAMBDA x : x.item = "compile_error")

Declarations == SelectSeq(output, LAMBDA x : x.item # "compile_error")

Count(s, x) == Cardinality({i \in 1..Len(s) : s[i] = x})

KindContent == output[2].content
SealedContent == KindContent[Len(KindContent)].content
Structs == SelectSeq(KindContent, LAMBDA x : x.item = "struct")
KindImpls == SelectSeq(KindContent, LAMBDA x : x.item = "impl")
SealedImpls == SelectSeq(SealedContent, LAMBDA x : x.item = "impl")
NamesOf(s) == [i \in 1..Len(s) |-> s[i].name]
ForOf(s) == [i \in 1..Len(s) |-> s[i].for]
IdentsOf(s) == [i \in 1..Len(s) |-> s[i].ident]
Range(s) == {s[i] : i \in 1..Len(s)}
Front(s) == SubSeq(s, 1, Len(s) - 1)

(* The validation rules of the declaration: a variant is valid when its    *)
(* name differs from the kind's and its fields are not named.              *)
Valid(v) == v.ident # item.ident /\ v.fields.tag # "Named"
ValidVariants == SelectSeq(item.variants, Valid)
ValidIdents == IdentsOf(ValidVariants)

RECURSIVE IsSubSeq(_, _)
IsSubSeq(s, t) ==
    IF s = <<>> THEN TRUE
    ELSE IF t = <<>> THEN FALSE
    ELSE IF Head(s) = Head(t) THEN IsSubSeq(Tail(s), Tail(t))
    ELSE IsSubSeq(s, Tail(t))

(* The complete replacement declaration set: the re-export, then the kind  *)
(* module holding the kind trait, the types and the sealing submodule.     *)
Complete ==
    /\ Len(output) = 2
    /\ output[1].item = "use"
    /\ output[2].item = "mod"
    /\ \E i \in 1..Len(KindContent) :
         KindContent[i].item = "trait" /\ KindContent[i].name = item.ident
    /\ KindContent[Len(KindContent)].item = "mod"
    /\ \E i \in 1..Len(SealedContent) : SealedContent[i].item = "trait"

----------------------------------------------------------------------------
(* C1: for an input with no generic parameters and no attribute arguments, *)
(* after a successful expansion the types implementing the kind trait are  *)
(* exactly the lifted types of the valid variants plus the placeholder,    *)
(* the types implementing the sealing trait are the same set, and the      *)
(* number of lifted type declarations is the number of valid variants.     *)
C1_ClosedWorld ==
    (Emitted /\ attr = <<>> /\ item.generics = 0 /\ Raised = <<>>) =>
        /\ Range(ForOf(KindImpls)) = Range(ValidIdents) \cup {pseudo}
        /\ Range(ForOf(SealedImpls)) = Range(ForOf(KindImpls))
        /\ \A i \in 1..Len(KindImpls) : KindImpls[i].trait = item.ident
        /\ \A i \in 1..Len(SealedImpls) : SealedImpls[i].trait = sealed_trait
        /\ Len(Structs) = Len(ValidVariants)

(* C2: a variant with named fields never reaches the list of variants to   *)
(* be lifted: with span_errors on the diagnostic is emitted for it and the *)
(* variant is skipped, with span_errors off the expansion aborts with the  *)
(* message.                                                                *)
NamedExamined ==
    {i \in 1..Len(item.variants) :
        item.variants[i].fields.tag = "Named" /\ item.variants[i].ident # item.ident}

C2_NamedFieldsExcluded ==
    /\ IdentsOf(variants) = ValidIdents
    /\ span_errors => Count(diagnostics, MsgNamedFields) = Cardinality(NamedExamined)
    /\ (~span_errors /\ NamedExamined # {}) =>
           (pc = "done" /\ panicked = MsgNamedFields /\ output = <<>>)
    /\ Emitted => /\ Range(NamesOf(Structs)) \subseteq Range(ValidIdents)
                  /\ Range(Tail(output[1].names)) \subseteq Range(ValidIdents)

----------------------------------------------------------------------------
(* C3 as claimed: generic parameters are fatal in both builds: the         *)
(* diagnostic is raised, no variant is examined afterwards and nothing is  *)
(* emitted.                                                                *)
C3_GenericsFatalInBothModes ==
    (item.generics > 0 /\ pc \in {"loop", "done"}) =>
        /\ MsgGenerics \in Range(Raised)
        /\ item.variants = <<>>
        /\ output = <<>>

(* C3 as amended: generic parameters raise the diagnostic in both builds.  *)
(* With span_errors off it is a panic: no variant is examined and nothing  *)
(* is emitted.  With span_errors on the diagnostic is emitted first and    *)
(* the expansion goes on: it never panics on the generics, and it ends     *)
(* with the complete declaration set.                                      *)
C3_Generics ==
    (item.generics > 0 /\ pc \in {"loop", "done"}) =>
        IF span_errors
        THEN /\ Len(diagnostics) >= 1 /\ diagnostics[1] = MsgGenerics
             /\ Count(diagnostics, MsgGenerics) = 1
             /\ panicked = ""
             /\ pc = "done" => Complete
        ELSE /\ pc = "done"
             /\ panicked = MsgGenerics
             /\ diagnostics = <<>>
             /\ item.variants = <<>>
             /\ variants = <<>>
             /\ output = <<>>

C3_Witness ==
    /\ span_errors /\ item.generics > 0 /\ Emitted
    /\ diagnostics = <<MsgGenerics>>
    /\ Len(item.variants) = 2 /\ Len(Structs) = 2

----------------------------------------------------------------------------
(* C4 as claimed: the arguments `mod N` and `mod` are accepted: the        *)
(* expansion is not rejected for its arguments, and what it emits is one   *)
(* module, named N (or like the kind for a bare `mod`), with no re-export. *)
ModuleArg == Len(attr) >= 1 /\ attr[1] = "mod"

C4_ExplicitModule ==
    (pc = "done" /\ ModuleArg) =>
        /\ panicked # MsgAssertAttr
        /\ Emitted =>
             /\ \A i \in 1..Len(output) : output[i].item # "use"
             /\ \E i \in 1..Len(output) :
                  /\ output[i].item = "mod"
                  /\ output[i].name = (IF Len(attr) = 2 THEN attr[2] ELSE item.ident)

(* C4 as amended: every non-empty argument list, `mod` and `mod N`         *)
(* included, is rejected: the expansion panics on the assertion before the *)
(* item is parsed and emits nothing.  Zero arguments is the one accepted   *)
(* shape, and it selects default mode: a re-export followed by the module  *)
(* named after the kind.                                                   *)
C4_OnlyEmptyArguments ==
    /\ (attr # <<>> /\ pc # "assert") =>
           /\ pc = "done"
           /\ panicked = MsgAssertAttr
           /\ item = NoItem
           /\ diagnostics = <<>>
           /\ output = <<>>
    /\ attr = <<>> => panicked # MsgAssertAttr
    /\ Emitted =>
           /\ attr = <<>>
           /\ output[1].item = "use"
           /\ output[2].item = "mod"
           /\ output[2].name = "__tylift_kind_" \o item.ident
           /\ output[1].path = output[2].name

C4_Witness == attr = <<"mod", "M">> /\ pc = "done" /\ panicked = MsgAssertAttr /\ output = <<>>

----------------------------------------------------------------------------
(* The two outcomes of C5. *)
OutcomeDeclarations == Complete /\ Raised = <<>>
OutcomeDiagnostics == Raised # <<>> /\ Declarations = <<>>

(* C5 as claimed: every expansion ends either with the complete            *)
(* declaration set and no diagnostic, or with one or more diagnostics and  *)
(* no declarations; no output comes together with a diagnostic.            *)
C5_ExactlyOneOutcome ==
    Done => /\ OutcomeDeclarations \/ OutcomeDiagnostics
            /\ ~(OutcomeDeclarations /\ OutcomeDiagnostics)

(* C5 as amended: with span_errors off every expansion ends in exactly one *)
(* of the two outcomes.  With span_errors on, invalid arguments and an     *)
(* item that is no enum still end with a diagnostic and no declarations,   *)
(* and every other expansion ends with the complete declaration set,       *)
(* together with the diagnostics emitted for generic parameters and for    *)
(* variants named like the kind, if any.  In both builds nothing is        *)
(* emitted before the expansion ends.                                      *)
C5_Outcomes ==
    /\ ~Done => output = <<>>
    /\ (Done /\ ~span_errors) =>
           /\ OutcomeDeclarations \/ OutcomeDiagnostics
           /\ ~(OutcomeDeclarations /\ OutcomeDiagnostics)
           /\ diagnostics = <<>>
    /\ (Done /\ span_errors) =>
           IF attr # <<>>
           THEN OutcomeDiagnostics /\ Len(Raised) = 1
           ELSE \/ OutcomeDiagnostics /\ diagnostics = <<>> /\ panicked = ""
                \/ Complete /\ panicked = ""
                            /\ Range(diagnostics) \subseteq {MsgGenerics, MsgNameMatches}

C5_Witness ==
    /\ span_errors /\ Done /\ Complete
    /\ MsgNameMatches \in Range(diagnostics)
    /\ Len(Structs) >= 1

----------------------------------------------------------------------------
KindNamed == {i \in 1..Len(item.variants) : item.variants[i].ident = item.ident}

(* C6: a variant named like the kind is never lifted: no type, impl or     *)
(* re-export entry of that name besides the trait.  With span_errors on    *)
(* the diagnostic is emitted once per such variant, the variant is skipped *)
(* and the valid variants around it are still lifted, so a declaration of  *)
(* such variants alone yields no lifted type; with span_errors off the     *)
(* first such variant aborts the expansion.                                *)
C6_KindNamedExcluded ==
    /\ \A i \in 1..Len(variants) : variants[i].ident # item.ident
    /\ IsSubSeq(IdentsOf(variants), IdentsOf(item.variants))
    /\ Emitted =>
           /\ item.ident \notin Range(NamesOf(Structs))
           /\ item.ident \notin Range(ForOf(KindImpls))
           /\ item.ident \notin Range(ForOf(SealedImpls))
           /\ output[1].names[1] = item.ident
           /\ Count(output[1].names, item.ident) = 1
    /\ span_errors =>
           /\ Count(diagnostics, MsgNameMatches) = Cardinality(KindNamed)
           /\ panicked # MsgNameMatches
           /\ IsSubSeq(ValidIdents, IdentsOf(variants))
           /\ Emitted => IsSubSeq(ValidIdents, NamesOf(Structs))
           /\ (Emitted /\ KindNamed = 1..Len(item.variants)) => Structs = <<>>
    /\ (~span_errors /\ KindNamed # {}) =>
           /\ pc = "done"
           /\ panicked = MsgNameMatches
           /\ output = <<>>
           /\ KindNamed = {Len(item.variants)}

C6_Witness ==
    /\ span_errors /\ Emitted
    /\ Len(item.variants) = 2
    /\ item.variants[1].ident = item.ident
    /\ Valid(item.variants[2])
    /\ NamesOf(Structs) = <<item.variants[2].ident>>
    /\ MsgNameMatches \in Range(diagnostics)

----------------------------------------------------------------------------
(* C7: in default mode a successful expansion emits the re-export and then *)
(* the module named after the kind; the re-export names the kind trait     *)
(* followed by the lifted types and nothing else, neither the sealing      *)
(* trait nor the placeholder; the sealing trait is declared only in the    *)
(* private sealing submodule; distinct kinds give distinct module names.   *)
C7_DefaultMode ==
    (Emitted /\ attr = <<>> /\ Raised = <<>>) =>
        /\ output[1].item = "use" /\ output[2].item = "mod"
        /\ output[2].name = "__tylift_kind_" \o item.ident
        /\ output[1].path = output[2].name
        /\ output[1].names = <<item.ident>> \o NamesOf(Structs)
        /\ "__Sealed" \notin Range(output[1].names)
        /\ "__Pseudo" \notin Range(output[1].names)
        /\ \A i \in 1..Len(KindContent) :
              KindContent[i].item = "trait" => KindContent[i].name # "__Sealed"
        /\ KindContent[Len(KindContent)].name = "__sealed"
        /\ KindContent[Len(KindContent)].vis = ""
        /\ \E i \in 1..Len(SealedContent) :
              SealedContent[i].item = "trait" /\ SealedContent[i].name = "__Sealed"
        /\ \A a, b \in KindIdents : a # b => kind_module(a) # kind_module(b)

----------------------------------------------------------------------------
(* C8: the lifted types appear in the order of the input variants with the *)
(* invalid variants absent: the re-export list, the type declarations with *)
(* their kind-trait impls and the sealing-trait impls each name the valid  *)
(* variants of the input, in input order.                                  *)
C8_OrderPreserved ==
    Emitted =>
        /\ Tail(output[1].names) = ValidIdents
        /\ NamesOf(Structs) = ValidIdents
        /\ Front(ForOf(KindImpls)) = ValidIdents
        /\ Front(ForOf(SealedImpls)) = ValidIdents

----------------------------------------------------------------------------
(* Position, among the emitted types, of the type lifted from variant j:   *)
(* the variants named like the kind before it have no type.                *)
Pos(j) == Cardinality({i \in 1..j : item.variants[i].ident # item.ident})

(* C9: the type lifted from a valid variant with k unnamed fields has k    *)
(* generic parameters, the i-th named from the slot index alone (so the    *)
(* names are pairwise distinct) and bounded by the i-th field's kind; both *)
(* impls repeat these parameters and bounds in order; a unit variant lifts *)
(* to a type with no parameter.                                            *)
C9_Parameters ==
    Emitted =>
        \A j \in 1..Len(item.variants) :
            Valid(item.variants[j]) =>
                /\ Pos(j) <= Len(Structs)
                /\ LET v == item.variants[j]
                       tys == v.fields.unnamed
                       S == Structs[Pos(j)]
                       KI == KindImpls[Pos(j)]
                       SI == SealedImpls[Pos(j)]
                       names == [i \in 1..Len(S.params) |-> S.params[i].name]
                   IN /\ S.name = v.ident /\ KI.for = v.ident /\ SI.for = v.ident
                      /\ Len(S.params) = Len(tys)
                      /\ \A i \in 1..Len(tys) :
                            /\ S.params[i].name = "__T" \o ToString(i - 1)
                            /\ S.params[i].bound = tys[i]
                      /\ \A a, b \in 1..Len(tys) :
                            a # b => S.params[a].name # S.params[b].name
                      /\ KI.params = S.params /\ SI.params = S.params
                      /\ KI.args = names /\ SI.args = names /\ S.payload = names
                      /\ KI.trait = item.ident /\ SI.trait = "__Sealed"
                      /\ v.fields.tag = "Unit" => S.params = <<>>

C9_Witness ==
    /\ Emitted
    /\ \E j \in 1..Len(item.variants) :
          /\ Valid(item.variants[j])
          /\ item.variants[j].fields.unnamed = <<"__T0", "K">>
          /\ Structs[Pos(j)].params =
                <<[name |-> "__T0", bound |-> "__T0"], [name |-> "__T1", bound |-> "K"]>>
    /\ \E j \in 1..Len(item.variants) :
          Valid(item.variants[j]) /\ item.variants[j].fields.tag = "Unit"
                                  /\ Structs[Pos(j)].params = <<>>

----------------------------------------------------------------------------
(* Identifiers the user wrote in the declaration, and identifiers the      *)
(* expansion made up.                                                      *)
UserIdents ==
    {item.ident}
    \cup Range(IdentsOf(item.variants))
    \cup UNION {Range(item.variants[i].fields.unnamed) : i \in 1..Len(item.variants)}

SynthesizedIdents ==
    {output[2].name, KindContent[Len(KindContent)].name}
    \cup {KindContent[i].name : i \in {n \in 1..Len(KindContent) : KindContent[n].item = "enum"}}
    \cup {SealedContent[i].name :
             i \in {n \in 1..Len(SealedContent) : SealedContent[n].item = "trait"}}
    \cup UNION {{Structs[i].params[n].name : n \in 1..Len(Structs[i].params)} :
                   i \in 1..Len(Structs)}

(* C10: for every accepted input no synthesized identifier equals an       *)
(* identifier of the declaration; the module never declares the            *)
(* placeholder and a lifted type under one name, and no parameter has the  *)
(* name of the kind that bounds it.                                        *)
C10_NoCollision ==
    (Emitted /\ Raised = <<>>) =>
        /\ SynthesizedIdents \cap UserIdents = {}
        /\ \A i \in 1..Len(KindContent) :
              KindContent[i].item = "enum" => KindContent[i].name \notin Range(NamesOf(Structs))
        /\ \A i \in 1..Len(Structs) : \A n \in 1..Len(Structs[i].params) :
              Structs[i].params[n].name # Structs[i].params[n].bound

====
